---- MODULE Spec2Model ----
(***************************************************************************)
(* The staggered absolute-strike backtest engine of                        *)
(* analysis/staggered_absolute_strategy.py: get_settlement_vix,            *)
(* find_spread and the day loop of run_staggered_absolute.                 *)
(*                                                                         *)
(* Units.  Every price (strike, bid, ask, underlying level, credit) and    *)
(* every amount of money (P&L, capital) is an integer number of cents, so  *)
(* the program's float arithmetic is modelled exactly: the strike 35 is    *)
(* 3500, the credit 1.50 is 150, and pnl_per = (credit - settlement) * 100 *)
(* keeps its form.  Dates are day numbers; a difference of two dates is a  *)
(* number of calendar days.                                                *)
(*                                                                         *)
(* The quote table.  The body of the day loop for a date reads the rows    *)
(* of that date (df_day) and, through get_settlement_vix, the quote_date   *)
(* and underlying_bid_eod columns of dates at or before an expiration that *)
(* the date has reached.  It never reads a row of a later date.  The       *)
(* variable df therefore holds, per trading date reached so far, the       *)
(* quote_date and the underlying_bid_eod of the date's first row; the      *)
(* option rows of the date are an input of the date's entry step.  The     *)
(* end of the table is the Return step.                                    *)
(*                                                                         *)
(* An optional value (None or a value) is a sequence of length 0 or 1.     *)
(*                                                                         *)
(* SpecFn calls get_settlement_vix (both definitions of the repository)    *)
(* and find_spread on their own, on tables the run of Spec does not build: *)
(* rows in any order, several rows per quote date, several expirations     *)
(* per day.                                                                *)
(***************************************************************************)
EXTENDS Integers, Sequences, FiniteSets, TLC

\* ------------------------------------------------------------------ bounds
MaxDays == 3        \* trading dates in the quote table
MaxQuotes == 4      \* rows of a table passed to a function called on its own

\* ------------------------------------------------------- input value sets
\* (short_strike, long_strike) as configured: the 35/45 spread of the source,
\* a wider spread, the strikes swapped, and a narrow spread (a quoted credit
\* can exceed its width)
SourcePair == <<3500, 4500>>
StrikePairs == {SourcePair, <<3500, 5500>>, <<4500, 3500>>, <<3500, 4000>>}
Levels == {0, 2500, 5000}       \* underlying_bid_eod of a trading date
Gaps == {1, 2}                  \* calendar days from one trading date to the next
Capitals == {4000000, 0}
DteMins == {-1, 1}
DteMaxs == {3}
Targets == {1, 2}
Intervals == {1, 2}

\* the parameters of a run: every combination for the spread of the source
\* with the starting capital of the source, and the other strike pairs and
\* the empty account with two positions and daily entries
Configs ==
    {c \in [pair : StrikePairs, dte_min : DteMins, dte_max : DteMaxs,
            target_positions : Targets, starting_capital : Capitals,
            entry_interval_days : Intervals] :
        \/ c.pair = SourcePair /\ c.starting_capital = 4000000 /\ c.dte_min = 1
        \/ c.pair = SourcePair /\ c.starting_capital = 4000000
           /\ c.target_positions = 2 /\ c.entry_interval_days = 1
        \/ c.starting_capital = 4000000 /\ c.dte_min = 1 /\ c.target_positions = 1
           /\ c.entry_interval_days = 1
        \/ c.pair = SourcePair /\ c.dte_min = 1 /\ c.target_positions = 2
           /\ c.entry_interval_days = 1}

\* the rows a trading date may quote: strike, type, days to expiration, bid
\* and ask
Row(k, t, n, b, a) ==
    [strike |-> k, option_type |-> t, dte |-> n, bid_eod |-> b, ask_eod |-> a]

QuoteRows == {Row(3500, "C", 2, 160, 10), Row(3500, "C", 2, 1010, 1010),
              Row(4500, "C", 2, 160, 10), Row(4500, "C", 2, 1010, 1010),
              Row(5500, "C", 2, 160, 10), Row(4000, "C", 2, 160, 10),
              Row(3500, "P", 2, 160, 10), Row(3500, "C", 5, 160, 10),
              Row(3500, "C", -1, 160, 10), Row(4500, "C", -1, 160, 10)}

RowCounts == {1, 2}
DayQuotes == UNION {[1..n -> QuoteRows] : n \in RowCounts}

None == <<>>
Some(v) == <<v>>
IsNone(o) == Len(o) = 0
Val(o) == o[1]

\* spread is the local of the entry check: None until find_spread is called
\* for the date, then Some of its result.  Line 158 reads it only after line
\* 156 has assigned it, so the value left by an earlier date is dropped at the
\* top of the loop.
VARIABLES short_strike, long_strike, dte_min, dte_max, target_positions,
          starting_capital, entry_interval_days,
          df, date, capital, open_positions, closed_trades, last_entry,
          spread, entries, pc,
          args, returned, frames

params == <<short_strike, long_strike, dte_min, dte_max, target_positions,
            starting_capital, entry_interval_days>>
fn_vars == <<args, returned>>
vars == <<params, df, date, capital, open_positions, closed_trades,
          last_entry, spread, entries, pc, fn_vars, frames>>

\* ------------------------------------------------------- Python builtins
max(a, b) == IF b > a THEN b ELSE a
min(a, b) == IF b < a THEN b ELSE a
abs(a) == IF a < 0 THEN -a ELSE a

\* int(a / b) for b # 0: true division, then truncation toward zero
int_div(a, b) ==
    IF (a >= 0) = (b > 0) THEN abs(a) \div abs(b) ELSE -(abs(a) \div abs(b))

\* ---------------------------------------------------- load_options_data
\* df['dte'] = expiration - quote_date: a quoted row of the date d with its
\* expiration column
with_expiration(row, d) ==
    [expiration |-> d + row.dte, strike |-> row.strike,
     option_type |-> row.option_type, bid_eod |-> row.bid_eod,
     ask_eod |-> row.ask_eod, dte |-> row.dte]

day_rows(quotes, d) == [i \in 1..Len(quotes) |-> with_expiration(quotes[i], d)]

\* --------------------------------------------------- get_settlement_vix
quote_dates(table) == {table[i].quote_date : i \in 1..Len(table)}

\* min() in place of max()
set_max_as_min(S) == CHOOSE m \in S : \A x \in S : m <= x

\* max() in place of min()
set_min_as_max(S) == CHOOSE m \in S : \A x \in S : x <= m

set_max(S) == CHOOSE m \in S : \A x \in S : x <= m
set_min(S) == CHOOSE m \in S : \A x \in S : m <= x

\* d['underlying_bid_eod'].iloc[0] of the rows of one quote date
underlying_on(table, d) ==
    LET i == CHOOSE j \in 1..Len(table) :
                 /\ table[j].quote_date = d
                 /\ \A k \in 1..(j - 1) : table[k].quote_date # d
    IN  table[i].underlying_bid_eod

get_settlement_vix(table, expiration) ==
    IF expiration \in quote_dates(table)
    THEN Some(underlying_on(table, expiration))
    ELSE LET before == {d \in quote_dates(table) : d < expiration}
         IN  IF before # {}
             THEN Some(underlying_on(table, set_max(before)))
             ELSE None

\* the test `if vix_exp:` : neither None nor zero
\* the test "is not None" in place of the truth value
truthy_unless_none(o) == ~IsNone(o)

truthy(o) == ~IsNone(o) /\ Val(o) # 0

\* ----------------------------------------------------------- find_spread
find_spread(df_day, short_k, long_k, lo, hi) ==
    LET in_range(r) == r.option_type = "C" /\ r.dte >= lo /\ r.dte <= hi
        calls == SelectSeq(df_day, in_range)
        is_short(r) == r.strike = short_k
        is_long(r) == r.strike = long_k
        short == SelectSeq(calls, is_short)
        long == SelectSeq(calls, is_long)
        exps(rows) == {rows[i].expiration : i \in 1..Len(rows)}
        common_exp == exps(short) \cap exps(long)
    IN  IF Len(short) = 0 \/ Len(long) = 0 THEN None
        ELSE IF common_exp = {} THEN None
        ELSE LET exp == set_min(common_exp)
                 at_exp(r) == r.expiration = exp
                 s == Head(SelectSeq(short, at_exp))
                 l == Head(SelectSeq(long, at_exp))
                 credit == s.bid_eod - l.ask_eod
             IN  IF credit <= 0 THEN None
                 ELSE Some([expiration |-> exp,
                            short_strike |-> short_k,
                            long_strike |-> long_k,
                            credit |-> credit,
                            spread_width |-> long_k - short_k,
                            dte |-> s.dte])

\* ------------------------------------------------ run_staggered_absolute
Init ==
    /\ \E c \in Configs :
         /\ short_strike = c.pair[1]
         /\ long_strike = c.pair[2]
         /\ dte_min = c.dte_min
         /\ dte_max = c.dte_max
         /\ target_positions = c.target_positions
         /\ starting_capital = c.starting_capital
         /\ entry_interval_days = c.entry_interval_days
    /\ df = <<>>
    /\ date = 0
    /\ capital = starting_capital
    /\ open_positions = <<>>
    /\ closed_trades = <<>>
    /\ last_entry = None
    /\ spread = None
    /\ entries = <<>>
    /\ pc = "expirations"
    /\ args = None
    /\ returned = None
    /\ frames = None

\* settlement, pnl_per and total_pnl of one position at the level vix_exp
\* the short leg's intrinsic value without its floor at zero
short_intr_unfloored(pos, vix_exp) == vix_exp - pos.short_strike

short_intr_of(pos, vix_exp) == max(0, vix_exp - pos.short_strike)

long_intr_of(pos, vix_exp) == max(0, vix_exp - pos.long_strike)

\* the settlement value of the short leg alone
settlement_short_leg_only(pos, vix_exp) == short_intr_of(pos, vix_exp)

settlement_of(pos, vix_exp) ==
    min(short_intr_of(pos, vix_exp) - long_intr_of(pos, vix_exp),
        pos.spread_width)

\* the per-contract P&L without the contract multiplier of 100
pnl_per_unscaled(pos, vix_exp) == pos.credit - settlement_of(pos, vix_exp)

pnl_per_of(pos, vix_exp) == (pos.credit - settlement_of(pos, vix_exp)) * 100

total_pnl_of(pos, vix_exp) == pnl_per_of(pos, vix_exp) * pos.contracts

\* the per-contract P&L added in place of the total P&L
add_pnl_per(cap, pos, vix_exp) == cap + pnl_per_of(pos, vix_exp)

\* capital += total_pnl
add_pnl(cap, pos, vix_exp) == cap + total_pnl_of(pos, vix_exp)

\* the entry date recorded as the exit date
exit_date_at_entry(pos) == pos.entry_date

\* 'exit_date': pos['expiration']
exit_date_of(pos) == pos.expiration

\* the row appended to closed_trades; cap is the capital after the addition
closed_trade(pos, vix_exp, cap) ==
    [entry_date |-> pos.entry_date,
     expiration |-> pos.expiration,
     short_strike |-> pos.short_strike,
     long_strike |-> pos.long_strike,
     credit |-> pos.credit,
     spread_width |-> pos.spread_width,
     max_loss_per |-> pos.max_loss_per,
     contracts |-> pos.contracts,
     vix_entry |-> pos.vix_entry,
     capital_at_entry |-> pos.capital_at_entry,
     dte_at_entry |-> pos.dte_at_entry,
     exit_date |-> exit_date_of(pos),
     vix_exp |-> vix_exp,
     pnl_per |-> pnl_per_of(pos, vix_exp),
     total_pnl |-> total_pnl_of(pos, vix_exp),
     capital_after |-> cap,
     win |-> pnl_per_of(pos, vix_exp) > 0]

\* the test passing only after the expiration date
expired_strictly(pos, d) == d > pos.expiration

\* the test one day ahead of the expiration
expired_early(pos, d) == d + 1 >= pos.expiration

\* the test of one position in the expiration loop
expired(pos, d) == d >= pos.expiration

\* the expiration loop with the row appended before capital += total_pnl
RECURSIVE check_expirations_stale(_, _, _, _, _, _)
check_expirations_stale(table, d, positions, i, cap, closed) ==
    IF i > Len(positions) THEN [capital |-> cap, closed_trades |-> closed]
    ELSE LET pos == positions[i]
             vix_exp == get_settlement_vix(table, pos.expiration)
         IN  IF expired(pos, d) /\ truthy(vix_exp)
             THEN check_expirations_stale(
                      table, d, positions, i + 1,
                      add_pnl(cap, pos, Val(vix_exp)),
                      Append(closed, closed_trade(pos, Val(vix_exp), cap)))
             ELSE check_expirations_stale(table, d, positions, i + 1, cap,
                                          closed)

\* the expiration loop from position i on: capital and closed trades after it
RECURSIVE check_expirations(_, _, _, _, _, _)
check_expirations(table, d, positions, i, cap, closed) ==
    IF i > Len(positions) THEN [capital |-> cap, closed_trades |-> closed]
    ELSE LET pos == positions[i]
             vix_exp == get_settlement_vix(table, pos.expiration)
         IN  IF expired(pos, d) /\ truthy(vix_exp)
             THEN LET new_cap == add_pnl(cap, pos, Val(vix_exp))
                  IN  check_expirations(
                          table, d, positions, i + 1, new_cap,
                          Append(closed,
                                 closed_trade(pos, Val(vix_exp), new_cap)))
             ELSE check_expirations(table, d, positions, i + 1, cap, closed)

\* positions_to_close: the positions the loop pops afterwards
to_close(pos, d) == expired(pos, d)

pop_closed(positions, d) ==
    LET stays(pos) == ~to_close(pos, d) IN SelectSeq(positions, stays)

\* for date in trading_dates: ... CHECK FOR EXPIRATIONS, on the next trading
\* date (day 1 for the first) with its underlying level
Expirations ==
    /\ pc = "expirations"
    /\ Len(df) < MaxDays
    /\ \E gap \in Gaps, level \in Levels :
         LET d == IF Len(df) = 0 THEN date + 1 ELSE date + gap
             table == Append(df, [quote_date |-> d,
                                  underlying_bid_eod |-> level])
             after == check_expirations(table, d, open_positions, 1,
                                        capital, closed_trades)
         IN  /\ df' = table
             /\ date' = d
             /\ capital' = after.capital
             /\ closed_trades' = after.closed_trades
             /\ open_positions' = pop_closed(open_positions, d)
    /\ spread' = None
    /\ pc' = "entry"
    /\ UNCHANGED <<params, last_entry, entries, fn_vars, frames>>

\* the interval test one day short
should_enter_early ==
    IsNone(last_entry) \/ date - Val(last_entry) >= entry_interval_days - 1

should_enter ==
    IsNone(last_entry) \/ date - Val(last_entry) >= entry_interval_days

\* the entry test without the cap on open positions
may_enter_uncapped == should_enter

\* the entry test without the interval since the last entry
may_enter_any_day == Len(open_positions) < target_positions

may_enter == should_enter /\ Len(open_positions) < target_positions

max_loss_per_of(found) == (found.spread_width - found.credit) * 100

\* the affordable count without the clamp to one contract
num_contracts_unclamped(cap, found) ==
    int_div(cap, target_positions * max_loss_per_of(found))

num_contracts(cap, found) ==
    max(1, int_div(cap, target_positions * max_loss_per_of(found)))

new_position(found, d, vix, cap) ==
    [entry_date |-> d,
     expiration |-> found.expiration,
     short_strike |-> found.short_strike,
     long_strike |-> found.long_strike,
     credit |-> found.credit,
     spread_width |-> found.spread_width,
     max_loss_per |-> max_loss_per_of(found),
     contracts |-> num_contracts(cap, found),
     vix_entry |-> vix,
     capital_at_entry |-> cap,
     dte_at_entry |-> found.dte]

\* a sizing that fails for every max_loss_per <= 0
sizing_fails_nonpositive(found) == max_loss_per_of(found) <= 0

\* line 161 with max_loss_per = 0: the division yields inf or nan (or
\* raises), int() raises, and the run ends with the error
sizing_fails(found) == max_loss_per_of(found) = 0

\* a failed search recorded as an entry of the date
not_found_step_restarts(d, cap, positions, last) ==
    [open_positions |-> positions, last_entry |-> Some(d), capital |-> cap]

\* the locals after the entry check when find_spread found nothing
not_found_step(d, cap, positions, last) ==
    [open_positions |-> positions, last_entry |-> last, capital |-> cap]

\* an entry that deducts the position's maximum loss from capital
opened_step_deducts(found, d, vix, cap, positions) ==
    [open_positions |-> Append(positions, new_position(found, d, vix, cap)),
     last_entry |-> Some(d),
     capital |-> cap - max_loss_per_of(found) * num_contracts(cap, found)]

\* the locals after the entry check that opens the position
opened_step(found, d, vix, cap, positions) ==
    [open_positions |-> Append(positions, new_position(found, d, vix, cap)),
     last_entry |-> Some(d), capital |-> cap]

\* CHECK FOR NEW ENTRY, with the rows quoted on the date
NewEntry ==
    /\ pc = "entry"
    /\ IF may_enter
       THEN \E quotes \in DayQuotes :
              LET found == find_spread(day_rows(quotes, date), short_strike,
                                       long_strike, dte_min, dte_max)
                  vix == underlying_on(df, date)
                  skip == not_found_step(date, capital, open_positions,
                                         last_entry)
                  open == opened_step(Val(found), date, vix, capital,
                                      open_positions)
              IN  /\ spread' = Some(found)
                  /\ IF IsNone(found)
                     THEN /\ open_positions' = skip.open_positions
                          /\ last_entry' = skip.last_entry
                          /\ capital' = skip.capital
                          /\ pc' = "expirations"
                          /\ UNCHANGED entries
                     ELSE IF sizing_fails(Val(found))
                     THEN /\ pc' = "error"
                          /\ UNCHANGED <<open_positions, last_entry, capital,
                                         entries>>
                     ELSE /\ open_positions' = open.open_positions
                          /\ last_entry' = open.last_entry
                          /\ capital' = open.capital
                          /\ entries' =
                               Append(entries,
                                      new_position(Val(found), date, vix,
                                                   capital))
                          /\ pc' = "expirations"
       ELSE /\ pc' = "expirations"
            /\ UNCHANGED <<open_positions, last_entry, capital, spread,
                           entries>>
    /\ UNCHANGED <<params, df, date, closed_trades, fn_vars, frames>>

\* return pd.DataFrame(closed_trades), capital, open_positions
Return ==
    /\ pc = "expirations"
    /\ pc' = "done"
    /\ UNCHANGED <<params, df, date, capital, open_positions, closed_trades,
                   last_entry, spread, entries, fn_vars, frames>>

Next == Expirations \/ NewEntry \/ Return

Spec == Init /\ [][Next]_vars

\* ------------------------------------------- the functions on their own
\* options_backtest.py: get_vix_on_date and its get_settlement_vix
get_vix_on_date(table, d) ==
    IF d \in quote_dates(table) THEN Some(underlying_on(table, d)) ELSE None

options_backtest_get_settlement_vix(table, expiration) ==
    LET vix == get_vix_on_date(table, expiration)
        before == {d \in quote_dates(table) : d < expiration}
    IN  IF IsNone(vix)
        THEN IF before # {} THEN get_vix_on_date(table, set_max(before))
             ELSE None
        ELSE vix

\* rows of a quote table as the settlement lookup reads them: the quote_date
\* and the underlying level of the date (one level per date, 0 included)
SettleRows == {[quote_date |-> 1, underlying_bid_eod |-> 2500],
               [quote_date |-> 2, underlying_bid_eod |-> 5000],
               [quote_date |-> 4, underlying_bid_eod |-> 0]}

\* tables of up to MaxQuotes rows
Tables(rows) == UNION {[1..n -> rows] : n \in 0..MaxQuotes}

Expirations_asked == 0..5

SettleArgs ==
    [fn : {"get_settlement_vix", "options_backtest.get_settlement_vix"},
     df : Tables(SettleRows), expiration : Expirations_asked]

\* option rows of one day for find_spread(df_day, 35, 45, 1, 3): calls of
\* both strikes at dte 1 and 3 (the ends of the range), 0 and 4 (outside), a
\* call with no bid, a put and a call of another strike
SpreadRows == {Row(3500, "C", 1, 160, 10), Row(3500, "C", 1, 10, 10),
               Row(4500, "C", 1, 160, 10),
               Row(3500, "C", 3, 160, 10), Row(4500, "C", 3, 160, 10),
               Row(3500, "C", 0, 160, 10), Row(4500, "C", 0, 160, 10),
               Row(3500, "C", 4, 160, 10), Row(4500, "C", 4, 160, 10),
               Row(3500, "P", 1, 160, 10), Row(4000, "C", 1, 160, 10)}

\* one row per contract (strike, type, expiration) in the rows of a day
one_per_contract(q) ==
    \A i, j \in 1..Len(q) :
        i < j => <<q[i].strike, q[i].option_type, q[i].dte>>
                 # <<q[j].strike, q[j].option_type, q[j].dte>>

SpreadArgs ==
    {[fn |-> "find_spread", df_day |-> day_rows(q, 1),
      short_strike |-> SourcePair[1], long_strike |-> SourcePair[2],
      dte_min |-> 1, dte_max |-> 3] :
        q \in {t \in Tables(SpreadRows) : one_per_contract(t)}}

\* find_option with the rows of no bid kept
find_option_any_bid(df_day, option_type, target_strike, lo, hi) ==
    LET keep(r) == /\ r.option_type = option_type
                   /\ r.dte >= lo
                   /\ r.dte <= hi
                   /\ r.bid_eod >= 0
        opts == SelectSeq(df_day, keep)
        strike_diff(i) == abs(opts[i].strike - target_strike)
        idxmin == CHOOSE i \in 1..Len(opts) :
                      /\ \A j \in 1..Len(opts) : strike_diff(i) <= strike_diff(j)
                      /\ \A j \in 1..(i - 1) : strike_diff(j) > strike_diff(i)
    IN  IF Len(opts) = 0 THEN None ELSE Some(opts[idxmin])

\* find_option of options_backtest.py and (the same text) of
\* juiced_strategies.py; idxmin() is the first row of the least strike_diff
find_option(df_day, option_type, target_strike, lo, hi) ==
    LET keep(r) == /\ r.option_type = option_type
                   /\ r.dte >= lo
                   /\ r.dte <= hi
                   /\ r.bid_eod > 0
        opts == SelectSeq(df_day, keep)
        strike_diff(i) == abs(opts[i].strike - target_strike)
        idxmin == CHOOSE i \in 1..Len(opts) :
                      /\ \A j \in 1..Len(opts) : strike_diff(i) <= strike_diff(j)
                      /\ \A j \in 1..(i - 1) : strike_diff(j) > strike_diff(i)
    IN  IF Len(opts) = 0 THEN None ELSE Some(opts[idxmin])

\* option rows of one day for find_option(df_day, type, 40, 1, 3): calls at
\* the same distance on both sides of the target, the target's own strike, a
\* nearer call with no bid, calls outside the range of dte and a put
OptionRows == {Row(3500, "C", 1, 160, 170), Row(4500, "C", 3, 20, 30),
               Row(4000, "C", 2, 60, 70), Row(3750, "C", 2, 0, 10),
               Row(4000, "C", 0, 60, 70), Row(4250, "C", 4, 60, 70),
               Row(4500, "P", 2, 50, 60)}

OptionArgs ==
    [fn : {"find_option"}, df_day : Tables(OptionRows),
     option_type : {"C", "P"}, target_strike : {4000},
     dte_min : {1}, dte_max : {3}]

InitFn ==
    /\ short_strike = SourcePair[1]
    /\ long_strike = SourcePair[2]
    /\ dte_min = 1
    /\ dte_max = 3
    /\ target_positions = 1
    /\ starting_capital = 4000000
    /\ entry_interval_days = 1
    /\ df = <<>>
    /\ date = 0
    /\ capital = starting_capital
    /\ open_positions = <<>>
    /\ closed_trades = <<>>
    /\ last_entry = None
    /\ spread = None
    /\ entries = <<>>
    /\ pc = "call"
    /\ args \in SettleArgs \cup SpreadArgs \cup OptionArgs
    /\ returned = None
    /\ frames = None

run_vars == <<params, df, date, capital, open_positions, closed_trades,
              last_entry, spread, entries>>

call_get_settlement_vix ==
    /\ pc = "call"
    /\ args.fn = "get_settlement_vix"
    /\ returned' = get_settlement_vix(args.df, args.expiration)
    /\ pc' = "returned"
    /\ UNCHANGED <<run_vars, args, frames>>

call_options_backtest_get_settlement_vix ==
    /\ pc = "call"
    /\ args.fn = "options_backtest.get_settlement_vix"
    /\ returned' = options_backtest_get_settlement_vix(args.df,
                                                       args.expiration)
    /\ pc' = "returned"
    /\ UNCHANGED <<run_vars, args, frames>>

call_find_spread ==
    /\ pc = "call"
    /\ args.fn = "find_spread"
    /\ returned' = find_spread(args.df_day, args.short_strike,
                               args.long_strike, args.dte_min, args.dte_max)
    /\ pc' = "returned"
    /\ UNCHANGED <<run_vars, args, frames>>

call_find_option ==
    /\ pc = "call"
    /\ args.fn = "find_option"
    /\ returned' = find_option(args.df_day, args.option_type,
                               args.target_strike, args.dte_min, args.dte_max)
    /\ pc' = "returned"
    /\ UNCHANGED <<run_vars, args, frames>>

NextFn ==
    \/ call_get_settlement_vix
    \/ call_options_backtest_get_settlement_vix
    \/ call_find_spread
    \/ call_find_option

SpecFn == InitFn /\ [][NextFn]_vars

\* ------------------------------------- the single-position strategies
\* SpecStrat runs the strategies of options_backtest.py and
\* juiced_strategies.py: the day loop of a strategy reads, per trading date,
\* the date's level and rows; the loop after it settles every recorded
\* position from the whole table.  frames holds the locals of each function
\* running on the table, args its name and parameters, returned its result.

\* round(n / d) of Python 3 for n >= 0 and d > 0: the nearest integer, a tie
\* going to the even one
round_ratio(n, d) ==
    LET q == n \div d
        r == n % d
    IN  IF 2 * r < d THEN q
        ELSE IF 2 * r > d THEN q + 1
        ELSE IF q % 2 = 0 THEN q ELSE q + 1

\* round(x / step) * step
round_to(x, step) == round_ratio(x, step) * step

\* the values of the optionals of a list that are not None, in order
RECURSIVE keep_some(_)
keep_some(seq) ==
    IF Len(seq) = 0 THEN <<>>
    ELSE IF IsNone(Head(seq)) THEN keep_some(Tail(seq))
    ELSE <<Val(Head(seq))>> \o keep_some(Tail(seq))

\* juiced_strategies.py, the loop `for pos in results` of one strategy and
\* its return: pos with pnl, vix_exp and capital_at_risk, or nothing
juiced_with_pnl(pos, table) ==
    LET vix_exp == get_settlement_vix(table, pos.expiration)
    IN  IF truthy(vix_exp)
        THEN LET short_intr == max(0, Val(vix_exp) - pos.short_strike)
                 long_intr == max(0, Val(vix_exp) - pos.long_strike)
                 settlement == short_intr - long_intr
             IN  Some(pos @@ [pnl |-> (pos.credit - settlement) * 100
                                      * pos.contracts,
                              vix_exp |-> Val(vix_exp),
                              capital_at_risk |-> pos.max_loss * 100
                                                  * pos.contracts])
        ELSE None

\* ---------------------------------------------- juice2_tight_when_high
juice2_tight_when_high_locals ==
    [results |-> <<>>, last_exp |-> None,
     short_offset |-> None, long_offset |-> None]

\* one pass of the day loop, lines 155-183
juice2_tight_when_high_day(fr, d, vix, df_day) ==
    LET short_offset == IF vix >= 2500 THEN 500 ELSE 1000
        long_offset == IF vix >= 2500 THEN 1500 ELSE 2000
        offs == [fr EXCEPT !.short_offset = Some(short_offset),
                           !.long_offset = Some(long_offset)]
        short_target == round_to(vix + short_offset, 250)
        long_target == round_to(vix + long_offset, 250)
        short_call == find_option(df_day, "C", short_target,
                                  args.dte_min, args.dte_max)
        long_call == find_option(df_day, "C", long_target,
                                 args.dte_min, args.dte_max)
        credit == Val(short_call).bid_eod - Val(long_call).ask_eod
        spread_width == Val(long_call).strike - Val(short_call).strike
    IN  IF IsNone(fr.last_exp) \/ d > Val(fr.last_exp)
        THEN IF ~IsNone(short_call) /\ ~IsNone(long_call)
             THEN IF Val(short_call).expiration = Val(long_call).expiration
                  THEN IF credit > 10 /\ spread_width > 0
                       THEN [offs EXCEPT
                               !.results = Append(@,
                                   [entry_date |-> d,
                                    expiration |-> Val(short_call).expiration,
                                    short_strike |-> Val(short_call).strike,
                                    long_strike |-> Val(long_call).strike,
                                    credit |-> credit,
                                    max_loss |-> spread_width - credit,
                                    vix_entry |-> vix,
                                    contracts |-> 1]),
                               !.last_exp = Some(Val(short_call).expiration)]
                       ELSE offs
                  ELSE offs
             ELSE offs
        ELSE offs

\* lines 185-195
juice2_tight_when_high_return(fr, table) ==
    LET with_pnl(pos) == juiced_with_pnl(pos, table)
    IN  keep_some([i \in 1..Len(fr.results) |-> with_pnl(fr.results[i])])

\* ------------------------------------------------ juice3_twice_monthly
\* date.day: day number 1 is the first of January of a year of 365 days
month_lengths == <<31, 28, 31, 30, 31, 30, 31, 31, 30, 31, 30, 31>>

RECURSIVE day_in_month(_, _)
day_in_month(n, m) ==
    IF n <= month_lengths[m] THEN n
    ELSE day_in_month(n - month_lengths[m], (m % 12) + 1)

day_of_month(d) == day_in_month(d, 1)

juice3_twice_monthly_locals ==
    [results |-> <<>>, last_exp_1 |-> None, last_exp_2 |-> None]

\* one pass of the loop over the two entry types, lines 222-244
juice3_twice_monthly_entry(fr, entry_type, can_enter, dte_range, d, vix, df_day) ==
    LET short_target == round_to(vix + args.short_offset, 250)
        long_target == round_to(vix + args.long_offset, 250)
        short_call == find_option(df_day, "C", short_target,
                                  dte_range[1], dte_range[2])
        long_call == find_option(df_day, "C", long_target,
                                 dte_range[1], dte_range[2])
        credit == Val(short_call).bid_eod - Val(long_call).ask_eod
        spread_width == Val(long_call).strike - Val(short_call).strike
        pos == [entry_date |-> d,
                expiration |-> Val(short_call).expiration,
                short_strike |-> Val(short_call).strike,
                long_strike |-> Val(long_call).strike,
                credit |-> credit,
                max_loss |-> spread_width - credit,
                vix_entry |-> vix,
                contracts |-> 1,
                entry_type |-> entry_type]
    IN  IF can_enter
        THEN IF ~IsNone(short_call) /\ ~IsNone(long_call)
             THEN IF Val(short_call).expiration = Val(long_call).expiration
                  THEN IF credit > 10 /\ spread_width > 0
                       THEN IF entry_type = 1
                            THEN [fr EXCEPT !.results = Append(@, pos),
                                            !.last_exp_1 = Some(pos.expiration)]
                            ELSE [fr EXCEPT !.results = Append(@, pos),
                                            !.last_exp_2 = Some(pos.expiration)]
                       ELSE fr
                  ELSE fr
             ELSE fr
        ELSE fr

\* one pass of the day loop, lines 209-244
juice3_twice_monthly_day(fr, d, vix, df_day) ==
    LET can_enter_1 == /\ IsNone(fr.last_exp_1) \/ d > Val(fr.last_exp_1)
                       /\ 1 <= day_of_month(d) /\ day_of_month(d) <= 10
        can_enter_2 == /\ IsNone(fr.last_exp_2) \/ d > Val(fr.last_exp_2)
                       /\ 15 <= day_of_month(d) /\ day_of_month(d) <= 25
        first == juice3_twice_monthly_entry(fr, 1, can_enter_1, <<40, 60>>,
                                            d, vix, df_day)
    IN  juice3_twice_monthly_entry(first, 2, can_enter_2, <<25, 45>>,
                                   d, vix, df_day)

\* lines 246-256
juice3_twice_monthly_return(fr, table) ==
    LET with_pnl(pos) == juiced_with_pnl(pos, table)
    IN  keep_some([i \in 1..Len(fr.results) |-> with_pnl(fr.results[i])])

\* ------------------------------------ strategy_post_spike_call_spreads
strategy_post_spike_call_spreads_locals ==
    [positions |-> <<>>, in_position |-> FALSE, last_exp |-> None]

\* the level test at or above the threshold
spiked_or_at(vix) == vix >= args.vix_threshold

\* line 198: vix > vix_threshold
spiked(vix) == vix > args.vix_threshold

\* one pass of the day loop, lines 192-217; short_pct and long_pct are in
\* percent
strategy_post_spike_call_spreads_day(fr, d, vix, df_day) ==
    LET in_position == IF ~IsNone(fr.last_exp) /\ d > Val(fr.last_exp)
                       THEN FALSE ELSE fr.in_position
        freed == [fr EXCEPT !.in_position = in_position]
        short_target == round_ratio(vix * args.short_pct, 100 * 500) * 500
        long_target == round_ratio(vix * args.long_pct, 100 * 500) * 500
        short_call == find_option(df_day, "C", short_target, 25, 45)
        long_call == find_option(df_day, "C", long_target, 25, 45)
        credit == Val(short_call).bid_eod - Val(long_call).ask_eod
        spread_width == Val(long_call).strike - Val(short_call).strike
    IN  IF ~in_position /\ spiked(vix)
        THEN IF ~IsNone(short_call) /\ ~IsNone(long_call)
             THEN IF Val(short_call).expiration = Val(long_call).expiration
                  THEN IF credit > 20 /\ spread_width > 0
                       THEN [freed EXCEPT
                               !.positions = Append(@,
                                   [entry_date |-> d,
                                    expiration |-> Val(short_call).expiration,
                                    short_strike |-> Val(short_call).strike,
                                    long_strike |-> Val(long_call).strike,
                                    credit |-> credit,
                                    spread_width |-> spread_width,
                                    vix_entry |-> vix]),
                               !.in_position = TRUE,
                               !.last_exp = Some(Val(short_call).expiration)]
                       ELSE freed
                  ELSE freed
             ELSE freed
        ELSE freed

\* lines 219-228: the result row of one position, or nothing
strategy_post_spike_call_spreads_result(pos, table) ==
    LET vix_exp == options_backtest_get_settlement_vix(table, pos.expiration)
    IN  IF truthy(vix_exp)
        THEN LET short_intr == max(0, Val(vix_exp) - pos.short_strike)
                 long_intr == max(0, Val(vix_exp) - pos.long_strike)
                 settlement == min(short_intr - long_intr, pos.spread_width)
                 pnl == (pos.credit - settlement) * 100
             IN  Some(pos @@ [settlement |-> settlement, pnl |-> pnl,
                              vix_exp |-> Val(vix_exp)])
        ELSE None

strategy_post_spike_call_spreads_return(fr, table) ==
    LET result(pos) == strategy_post_spike_call_spreads_result(pos, table)
    IN  keep_some([i \in 1..Len(fr.positions) |-> result(fr.positions[i])])

\* ----------------------------------------------- strategy_call_spreads
\* the gate of the single-position strategies with the expiration date
\* itself let through
gate_open_at_expiration(d, last_exp) == IsNone(last_exp) \/ d >= Val(last_exp)

\* options_backtest.py lines 61, 98, 145 and juiced_strategies.py line 55:
\* last_exp is None or date > last_exp
gate_open(d, last_exp) == IsNone(last_exp) \/ d > Val(last_exp)

strategy_call_spreads_locals == [positions |-> <<>>, last_exp |-> None]

\* one pass of the day loop, lines 142-163
strategy_call_spreads_day(fr, d, vix, df_day) ==
    LET short_target == round_to(vix + args.short_offset, 250)
        long_target == round_to(vix + args.long_offset, 250)
        short_call == find_option(df_day, "C", short_target,
                                  args.dte_min, args.dte_max)
        long_call == find_option(df_day, "C", long_target,
                                 args.dte_min, args.dte_max)
        credit == Val(short_call).bid_eod - Val(long_call).ask_eod
        spread_width == Val(long_call).strike - Val(short_call).strike
    IN  IF gate_open(d, fr.last_exp)
        THEN IF ~IsNone(short_call) /\ ~IsNone(long_call)
             THEN IF Val(short_call).expiration = Val(long_call).expiration
                  THEN IF credit > 10 /\ spread_width > 0
                       THEN [fr EXCEPT
                               !.positions = Append(@,
                                   [entry_date |-> d,
                                    expiration |-> Val(short_call).expiration,
                                    short_strike |-> Val(short_call).strike,
                                    long_strike |-> Val(long_call).strike,
                                    credit |-> credit,
                                    max_loss |-> spread_width - credit,
                                    vix_entry |-> vix]),
                               !.last_exp = Some(Val(short_call).expiration)]
                       ELSE fr
                  ELSE fr
             ELSE fr
        ELSE fr

\* lines 165-172: the result row of one position, or nothing
strategy_call_spreads_result(pos, table) ==
    LET vix_exp == options_backtest_get_settlement_vix(table, pos.expiration)
    IN  IF truthy(vix_exp)
        THEN LET short_intr == max(0, Val(vix_exp) - pos.short_strike)
                 long_intr == max(0, Val(vix_exp) - pos.long_strike)
                 settlement == short_intr - long_intr
                 pnl == (pos.credit - settlement) * 100
             IN  Some(pos @@ [settlement |-> settlement, pnl |-> pnl,
                              vix_exp |-> Val(vix_exp)])
        ELSE None

strategy_call_spreads_return(fr, table) ==
    LET result(pos) == strategy_call_spreads_result(pos, table)
    IN  keep_some([i \in 1..Len(fr.positions) |-> result(fr.positions[i])])

\* -------------------------------------------------- strategy_otm_calls
strategy_otm_calls_locals == [positions |-> <<>>, last_exp |-> None]

\* one pass of the day loop, lines 57-70
strategy_otm_calls_day(fr, d, vix, df_day) ==
    LET target_strike == round_to(vix + args.otm_offset, 250)
        opt == find_option(df_day, "C", target_strike,
                           args.dte_min, args.dte_max)
    IN  IF gate_open(d, fr.last_exp)
        THEN IF ~IsNone(opt) /\ Val(opt).bid_eod > args.min_premium
             THEN [fr EXCEPT
                     !.positions = Append(@,
                         [entry_date |-> d,
                          expiration |-> Val(opt).expiration,
                          strike |-> Val(opt).strike,
                          premium |-> Val(opt).bid_eod,
                          vix_entry |-> vix]),
                     !.last_exp = Some(Val(opt).expiration)]
             ELSE fr
        ELSE fr

\* lines 72-77: the result row of one position, or nothing
strategy_otm_calls_result(pos, table) ==
    LET vix_exp == options_backtest_get_settlement_vix(table, pos.expiration)
    IN  IF truthy(vix_exp)
        THEN LET settlement == max(0, Val(vix_exp) - pos.strike)
                 pnl == (pos.premium - settlement) * 100
             IN  Some(pos @@ [settlement |-> settlement, pnl |-> pnl,
                              vix_exp |-> Val(vix_exp)])
        ELSE None

strategy_otm_calls_return(fr, table) ==
    LET result(pos) == strategy_otm_calls_result(pos, table)
    IN  keep_some([i \in 1..Len(fr.positions) |-> result(fr.positions[i])])

\* ------------------------------------------ strategy_dynamic_strangles
strategy_dynamic_strangles_locals == [positions |-> <<>>, last_exp |-> None]

\* one pass of the day loop, lines 94-114; put_pct and call_pct are in
\* percent
strategy_dynamic_strangles_day(fr, d, vix, df_day) ==
    LET put_strike == max(1000, round_ratio(vix * args.put_pct, 100 * 250) * 250)
        call_strike == round_ratio(vix * args.call_pct, 100 * 250) * 250
        put_opt == find_option(df_day, "P", put_strike,
                               args.dte_min, args.dte_max)
        call_opt == find_option(df_day, "C", call_strike,
                                args.dte_min, args.dte_max)
        premium == Val(put_opt).bid_eod + Val(call_opt).bid_eod
    IN  IF gate_open(d, fr.last_exp)
        THEN IF ~IsNone(put_opt) /\ ~IsNone(call_opt)
             THEN IF Val(put_opt).expiration = Val(call_opt).expiration
                  THEN IF premium > 20
                       THEN [fr EXCEPT
                               !.positions = Append(@,
                                   [entry_date |-> d,
                                    expiration |-> Val(put_opt).expiration,
                                    put_strike |-> Val(put_opt).strike,
                                    call_strike |-> Val(call_opt).strike,
                                    premium |-> premium,
                                    vix_entry |-> vix]),
                               !.last_exp = Some(Val(put_opt).expiration)]
                       ELSE fr
                  ELSE fr
             ELSE fr
        ELSE fr

\* lines 116-123: the result row of one position, or nothing
strategy_dynamic_strangles_result(pos, table) ==
    LET vix_exp == options_backtest_get_settlement_vix(table, pos.expiration)
    IN  IF truthy(vix_exp)
        THEN LET put_settle == max(0, pos.put_strike - Val(vix_exp))
                 call_settle == max(0, Val(vix_exp) - pos.call_strike)
                 settlement == put_settle + call_settle
                 pnl == (pos.premium - settlement) * 100
             IN  Some(pos @@ [settlement |-> settlement, pnl |-> pnl,
                              vix_exp |-> Val(vix_exp)])
        ELSE None

strategy_dynamic_strangles_return(fr, table) ==
    LET result(pos) == strategy_dynamic_strangles_result(pos, table)
    IN  keep_some([i \in 1..Len(fr.positions) |-> result(fr.positions[i])])

\* ----------------------------------------------- baseline_call_spreads
baseline_call_spreads_locals == [results |-> <<>>, last_exp |-> None]

\* one pass of the day loop, lines 52-74
baseline_call_spreads_day(fr, d, vix, df_day) ==
    LET short_target == round_to(vix + args.short_offset, 250)
        long_target == round_to(vix + args.long_offset, 250)
        short_call == find_option(df_day, "C", short_target,
                                  args.dte_min, args.dte_max)
        long_call == find_option(df_day, "C", long_target,
                                 args.dte_min, args.dte_max)
        credit == Val(short_call).bid_eod - Val(long_call).ask_eod
        spread_width == Val(long_call).strike - Val(short_call).strike
    IN  IF gate_open(d, fr.last_exp)
        THEN IF ~IsNone(short_call) /\ ~IsNone(long_call)
             THEN IF Val(short_call).expiration = Val(long_call).expiration
                  THEN IF credit > 10 /\ spread_width > 0
                       THEN [fr EXCEPT
                               !.results = Append(@,
                                   [entry_date |-> d,
                                    expiration |-> Val(short_call).expiration,
                                    short_strike |-> Val(short_call).strike,
                                    long_strike |-> Val(long_call).strike,
                                    credit |-> credit,
                                    max_loss |-> spread_width - credit,
                                    vix_entry |-> vix,
                                    contracts |-> 1]),
                               !.last_exp = Some(Val(short_call).expiration)]
                       ELSE fr
                  ELSE fr
             ELSE fr
        ELSE fr

\* the settlement value from the short leg alone
baseline_settlement_short_leg(pos, vix_exp) == max(0, vix_exp - pos.short_strike)

\* lines 80-82
baseline_settlement(pos, vix_exp) ==
    LET short_intr == max(0, vix_exp - pos.short_strike)
        long_intr == max(0, vix_exp - pos.long_strike)
    IN  short_intr - long_intr

\* lines 77-85: pos with pnl, vix_exp and capital_at_risk, or nothing
baseline_call_spreads_with_pnl(pos, table) ==
    LET vix_exp == get_settlement_vix(table, pos.expiration)
    IN  IF truthy(vix_exp)
        THEN Some(pos @@ [pnl |-> (pos.credit
                                   - baseline_settlement(pos, Val(vix_exp)))
                                  * 100 * pos.contracts,
                          vix_exp |-> Val(vix_exp),
                          capital_at_risk |-> pos.max_loss * 100
                                              * pos.contracts])
        ELSE None

\* lines 77-87
baseline_call_spreads_return(fr, table) ==
    LET with_pnl(pos) == baseline_call_spreads_with_pnl(pos, table)
    IN  keep_some([i \in 1..Len(fr.results) |-> with_pnl(fr.results[i])])

\* --------------------------------------------------------- the inputs
StratLevels == {0, 2500, 3500}
StratGaps == {1, 30}
StartDays == {1, 15}

\* the rows of one trading date: puts only; a 35/45 call spread with a put;
\* calls every 5 points; the two calls at different expirations; a credit of
\* 0.05; the spread at 42 days to expiration; a 10/20 call spread
StratDayQuotes ==
    {<<Row(2000, "P", 30, 50, 60)>>,
     <<Row(3500, "C", 30, 160, 170), Row(4500, "C", 30, 20, 10),
       Row(2000, "P", 30, 50, 60)>>,
     <<Row(3000, "C", 30, 200, 210), Row(3500, "C", 30, 160, 170),
       Row(4000, "C", 30, 60, 70), Row(4500, "C", 30, 20, 10)>>,
     <<Row(3500, "C", 30, 160, 170), Row(4500, "C", 37, 20, 10)>>,
     <<Row(3500, "C", 30, 15, 20), Row(4500, "C", 30, 10, 10)>>,
     <<Row(3500, "C", 42, 160, 170), Row(4500, "C", 42, 20, 10)>>,
     <<Row(1000, "C", 30, 300, 310), Row(2000, "C", 30, 100, 90)>>}

\* the calls: the functions run on one table, with their parameters
StratCalls ==
    {[fns |-> {"juice2_tight_when_high"}, dte_min |-> 25, dte_max |-> 45],
     [fns |-> {"juice3_twice_monthly"},
      short_offset |-> 1000, long_offset |-> 2000],
     [fns |-> {"strategy_post_spike_call_spreads"},
      vix_threshold |-> 2500, short_pct |-> 120, long_pct |-> 140],
     [fns |-> {"strategy_call_spreads", "baseline_call_spreads"},
      short_offset |-> 1000, long_offset |-> 2000,
      dte_min |-> 25, dte_max |-> 45],
     [fns |-> {"strategy_call_spreads", "baseline_call_spreads"},
      short_offset |-> 500, long_offset |-> 1500,
      dte_min |-> 25, dte_max |-> 45],
     [fns |-> {"strategy_otm_calls"}, otm_offset |-> 1000,
      dte_min |-> 25, dte_max |-> 45, min_premium |-> 10],
     [fns |-> {"strategy_dynamic_strangles"}, put_pct |-> 70,
      call_pct |-> 150, dte_min |-> 25, dte_max |-> 45]}

locals_of(f) ==
    CASE f = "juice2_tight_when_high" -> juice2_tight_when_high_locals
      [] f = "juice3_twice_monthly" -> juice3_twice_monthly_locals
      [] f = "strategy_post_spike_call_spreads" ->
             strategy_post_spike_call_spreads_locals
      [] f = "strategy_call_spreads" -> strategy_call_spreads_locals
      [] f = "baseline_call_spreads" -> baseline_call_spreads_locals
      [] f = "strategy_otm_calls" -> strategy_otm_calls_locals
      [] f = "strategy_dynamic_strangles" -> strategy_dynamic_strangles_locals

day_of(f, fr, d, vix, df_day) ==
    CASE f = "juice2_tight_when_high" ->
             juice2_tight_when_high_day(fr, d, vix, df_day)
      [] f = "juice3_twice_monthly" ->
             juice3_twice_monthly_day(fr, d, vix, df_day)
      [] f = "strategy_post_spike_call_spreads" ->
             strategy_post_spike_call_spreads_day(fr, d, vix, df_day)
      [] f = "strategy_call_spreads" ->
             strategy_call_spreads_day(fr, d, vix, df_day)
      [] f = "baseline_call_spreads" ->
             baseline_call_spreads_day(fr, d, vix, df_day)
      [] f = "strategy_otm_calls" ->
             strategy_otm_calls_day(fr, d, vix, df_day)
      [] f = "strategy_dynamic_strangles" ->
             strategy_dynamic_strangles_day(fr, d, vix, df_day)

return_of(f, fr, table) ==
    CASE f = "juice2_tight_when_high" ->
             juice2_tight_when_high_return(fr, table)
      [] f = "juice3_twice_monthly" ->
             juice3_twice_monthly_return(fr, table)
      [] f = "strategy_post_spike_call_spreads" ->
             strategy_post_spike_call_spreads_return(fr, table)
      [] f = "strategy_call_spreads" ->
             strategy_call_spreads_return(fr, table)
      [] f = "baseline_call_spreads" ->
             baseline_call_spreads_return(fr, table)
      [] f = "strategy_otm_calls" ->
             strategy_otm_calls_return(fr, table)
      [] f = "strategy_dynamic_strangles" ->
             strategy_dynamic_strangles_return(fr, table)

InitStrat ==
    /\ short_strike = SourcePair[1]
    /\ long_strike = SourcePair[2]
    /\ dte_min = 1
    /\ dte_max = 3
    /\ target_positions = 1
    /\ starting_capital = 4000000
    /\ entry_interval_days = 1
    /\ capital = starting_capital
    /\ open_positions = <<>>
    /\ closed_trades = <<>>
    /\ last_entry = None
    /\ spread = None
    /\ entries = <<>>
    /\ args \in StratCalls
    /\ df = <<>>
    /\ date = 0
    /\ frames = [f \in args.fns |-> locals_of(f)]
    /\ returned = None
    /\ pc = "loop"

engine_vars == <<params, capital, open_positions, closed_trades, last_entry,
                 spread, entries>>

\* for date in trading_dates: the body of every running function on the
\* next trading date, with its level and rows
DayLoop ==
    /\ pc = "loop"
    /\ Len(df) < MaxDays
    /\ \E start \in StartDays, gap \in StratGaps, level \in StratLevels,
          quotes \in StratDayQuotes :
         LET d == IF Len(df) = 0 THEN start ELSE date + gap
         IN  /\ df' = Append(df, [quote_date |-> d,
                                  underlying_bid_eod |-> level])
             /\ date' = d
             /\ frames' = [f \in DOMAIN frames |->
                              day_of(f, frames[f], d, level,
                                     day_rows(quotes, d))]
    /\ UNCHANGED <<engine_vars, args, returned, pc>>

\* the loop over the recorded positions after the last trading date, and
\* the return
SettleLoop ==
    /\ pc = "loop"
    /\ returned' = [f \in DOMAIN frames |-> return_of(f, frames[f], df)]
    /\ pc' = "returned"
    /\ UNCHANGED <<engine_vars, args, df, date, frames>>

NextStrat == DayLoop \/ SettleLoop

SpecStrat == InitStrat /\ [][NextStrat]_vars

\* ------------------------------------------------------------ properties
RECURSIVE sum_total_pnl(_, _)
sum_total_pnl(trades, n) ==
    IF n = 0 THEN 0 ELSE sum_total_pnl(trades, n - 1) + trades[n].total_pnl

\* the settlement value a closed trade's pnl_per was computed from, times 100
settlement_x100(t) == t.credit * 100 - t.pnl_per

\* trade i was closed on the current date: its expiration is later than the
\* trading date before
closed_today(i) ==
    /\ Len(df) >= 2
    /\ closed_trades[i].expiration > df[Len(df) - 1].quote_date

no_price(pos, table) == ~truthy(get_settlement_vix(table, pos.expiration))

\* C1: the number of open positions never exceeds target_positions
C1_OpenAtMostTarget == Len(open_positions) <= target_positions

\* C1 witness: the entry step is reached on a date that passes the interval
\* test with target_positions positions open
C1_CapBinds ==
    /\ pc = "entry"
    /\ should_enter
    /\ Len(open_positions) = target_positions

\* C2: every closed trade's capital_after is the capital_after of the trade
\* before it (starting_capital for the first) plus its own total_pnl
C2_CapitalLedger ==
    \A i \in 1..Len(closed_trades) :
        closed_trades[i].capital_after =
            (IF i = 1 THEN starting_capital
                      ELSE closed_trades[i - 1].capital_after)
            + closed_trades[i].total_pnl

\* C2 witness: two positions were settled on the same trading date
C2_TwoClosedSameDate ==
    /\ pc = "entry"
    /\ Len(closed_trades) >= 2
    /\ closed_today(Len(closed_trades))
    /\ closed_today(Len(closed_trades) - 1)

\* C3: the entries made are the closed trades plus the open positions, so
\* no position leaves the open set without a closed trade
C3_EveryExitIsATrade ==
    Len(entries) = Len(closed_trades) + Len(open_positions)

\* C4: a position whose expiration is reached while no settlement price is
\* available stays in the open set in that cycle, and a position that was
\* never settled is among the open positions at the end of the run
C4_UnsettledStaysOpen ==
    /\ [][(pc = "expirations" /\ pc' = "entry") =>
            \A i \in 1..Len(open_positions) :
                (expired(open_positions[i], date')
                 /\ no_price(open_positions[i], df')) =>
                    \E j \in 1..Len(open_positions') :
                        open_positions'[j] = open_positions[i]]_vars
    /\ [](pc = "done" =>
            \A i \in 1..Len(entries) :
                \/ \E j \in 1..Len(open_positions) :
                       open_positions[j] = entries[i]
                \/ \E j \in 1..Len(closed_trades) :
                       closed_trades[j].entry_date = entries[i].entry_date)

\* C5: the settlement value of every closed trade lies in [0, spread_width]
C5_SettlementClamped ==
    \A i \in 1..Len(closed_trades) :
        /\ settlement_x100(closed_trades[i]) >= 0
        /\ settlement_x100(closed_trades[i])
               <= closed_trades[i].spread_width * 100

\* C6: every open position has credit > 0 and
\* spread_width = long_strike - short_strike > 0
C6_CreditAndWidthPositive ==
    \A i \in 1..Len(open_positions) :
        /\ open_positions[i].credit > 0
        /\ open_positions[i].spread_width =
               open_positions[i].long_strike - open_positions[i].short_strike
        /\ open_positions[i].spread_width > 0

\* C7: the entry dates of any two positions opened in a run are at least
\* entry_interval_days calendar days apart
C7_EntriesSpaced ==
    \A i, j \in 1..Len(entries) :
        i < j => entries[j].entry_date - entries[i].entry_date
                    >= entry_interval_days

\* C7 witness: two entries of a run with an interval above one day, with a
\* trading date between them on which no entry was made
C7_EntryAfterSkippedDate ==
    /\ entry_interval_days > 1
    /\ \E i, j \in 1..Len(entries) : \E k \in 1..Len(df) :
          /\ entries[i].entry_date < df[k].quote_date
          /\ df[k].quote_date < entries[j].entry_date

\* C8: capital minus starting_capital is the sum of total_pnl over the
\* closed trades
C8_CapitalIsStartPlusPnl ==
    capital - starting_capital
        = sum_total_pnl(closed_trades, Len(closed_trades))

\* C8 witness: a run has ended with closed trades, a win and a loss among them
C8_RunEndedWithTrades ==
    /\ pc = "done"
    /\ \E i, j \in 1..Len(closed_trades) :
          closed_trades[i].total_pnl > 0 /\ closed_trades[j].total_pnl < 0

\* C9: for every closed trade, with
\* settlement = min(max(0, vix_exp - short_strike)
\*                  - max(0, vix_exp - long_strike), spread_width),
\* pnl_per = (credit - settlement) * 100, total_pnl = pnl_per * contracts,
\* and capital_after is the capital before the trade plus total_pnl
C9_SettlementArithmetic ==
    \A i \in 1..Len(closed_trades) :
        LET t == closed_trades[i]
            above_short == IF t.vix_exp > t.short_strike
                           THEN t.vix_exp - t.short_strike ELSE 0
            above_long == IF t.vix_exp > t.long_strike
                          THEN t.vix_exp - t.long_strike ELSE 0
            settlement == IF above_short - above_long < t.spread_width
                          THEN above_short - above_long ELSE t.spread_width
            before == IF i = 1 THEN starting_capital
                      ELSE closed_trades[i - 1].capital_after
        IN  /\ t.pnl_per = (t.credit - settlement) * 100
            /\ t.total_pnl = t.pnl_per * t.contracts
            /\ t.capital_after = before + t.total_pnl
            /\ i = Len(closed_trades) => capital = t.capital_after

\* C9 witness: closed trades settled below the short strike, strictly
\* between the strikes and above the long strike
C9_SettledBetweenStrikes ==
    /\ \E i \in 1..Len(closed_trades) :
          /\ closed_trades[i].vix_exp > closed_trades[i].short_strike
          /\ closed_trades[i].vix_exp < closed_trades[i].long_strike
          /\ closed_trades[i].contracts > 1
    /\ \E i \in 1..Len(closed_trades) :
          closed_trades[i].vix_exp < closed_trades[i].short_strike

\* C10: a closed trade settled at or below its short strike has settlement 0,
\* total_pnl = credit * 100 * contracts, and is flagged as a win
C10_FullCreditAtOrBelowShort ==
    \A i \in 1..Len(closed_trades) :
        closed_trades[i].vix_exp <= closed_trades[i].short_strike =>
            /\ settlement_x100(closed_trades[i]) = 0
            /\ closed_trades[i].total_pnl =
                   closed_trades[i].credit * 100 * closed_trades[i].contracts
            /\ closed_trades[i].win

\* C11 as stated: a closed trade settled at or above its long strike has
\* settlement = spread_width, pnl_per = (credit - spread_width) * 100, and is
\* flagged as not a win
C11_MaxLossNeverWin ==
    \A i \in 1..Len(closed_trades) :
        LET t == closed_trades[i]
        IN  t.vix_exp >= t.long_strike =>
                /\ settlement_x100(t) = t.spread_width * 100
                /\ t.pnl_per = (t.credit - t.spread_width) * 100
                /\ ~t.win

\* C11: a closed trade settled at or above its long strike has settlement =
\* spread_width and pnl_per = (credit - spread_width) * 100, the negated
\* max_loss_per; it is flagged as a win exactly when its credit exceeds its
\* width, and as not a win when credit <= spread_width
C11_MaxLossAtOrAboveLong ==
    \A i \in 1..Len(closed_trades) :
        LET t == closed_trades[i]
        IN  t.vix_exp >= t.long_strike =>
                /\ settlement_x100(t) = t.spread_width * 100
                /\ t.pnl_per = (t.credit - t.spread_width) * 100
                /\ t.pnl_per = -t.max_loss_per
                /\ t.win <=> t.credit > t.spread_width

\* a trade with long_strike above short_strike closed at or above its long
\* strike at the negated max_loss_per, flagged as a win
C11_WinAtOrAboveLong ==
    \E i \in 1..Len(closed_trades) :
        LET t == closed_trades[i]
        IN  /\ t.long_strike > t.short_strike
            /\ t.vix_exp >= t.long_strike
            /\ t.pnl_per = -t.max_loss_per
            /\ t.win

\* floor(a / b) for b # 0
floor_ratio(a, b) == IF b > 0 THEN a \div b ELSE (-a) \div (-b)

\* the position an entry step has just opened
opened_now == entries'[Len(entries')]

\* C13: a position is opened with contracts = max(1, floor((capital /
\* target_positions) / max_loss_per)) of the capital at that moment, which is
\* recorded as its capital_at_entry, and with contracts >= 1
C13_ContractsClampedToOne ==
    [][Len(entries') > Len(entries) =>
          /\ opened_now.capital_at_entry = capital
          /\ opened_now.contracts =
                 max(1, floor_ratio(capital, target_positions
                                             * opened_now.max_loss_per))
          /\ opened_now.contracts >= 1]_vars

\* positions were opened with zero and with negative capital, and one with
\* capital per position below one contract's max loss
C13_OpenedWithoutCapital ==
    /\ \E i \in 1..Len(entries) : entries[i].capital_at_entry = 0
    /\ \E i \in 1..Len(entries) :
          /\ entries[i].capital_at_entry < 0
          /\ entries[i].contracts = 1

\* C15: an entry step whose find_spread call returns None ends without error,
\* opens no position and leaves capital, last_entry and closed_trades
\* unchanged; on the next trading date the entry test passes again and
\* find_spread is called again
C15_NotFoundSkipsEntry ==
    /\ [][pc = "entry" /\ spread' = Some(None) =>
              /\ pc' = "expirations"
              /\ open_positions' = open_positions
              /\ entries' = entries
              /\ capital' = capital
              /\ last_entry' = last_entry
              /\ closed_trades' = closed_trades]_vars
    /\ [][pc = "expirations" /\ spread = Some(None) /\ pc' = "entry" =>
              may_enter']_vars
    /\ [][pc = "entry" /\ may_enter => spread' # None]_vars

\* find_spread returned None on a date after an earlier entry, on the date
\* the interval allowed the next entry, and a trading date follows
C15_SearchFailedAfterEntry ==
    /\ pc = "expirations"
    /\ spread = Some(None)
    /\ ~IsNone(last_entry)
    /\ date - Val(last_entry) = entry_interval_days
    /\ Len(df) < MaxDays

\* C16: when the run has returned, every position opened with an expiration
\* later than the last trading date is in open_positions, has no row in
\* closed_trades, and capital holds the P&L of the closed trades only
C16_UnexpiredReturnedOpen ==
    pc = "done" =>
        \A i \in 1..Len(entries) :
            entries[i].expiration > date =>
                /\ \E j \in 1..Len(open_positions) :
                       open_positions[j] = entries[i]
                /\ \A k \in 1..Len(closed_trades) :
                       closed_trades[k].entry_date # entries[i].entry_date
                /\ capital = starting_capital
                       + sum_total_pnl(closed_trades, Len(closed_trades))

\* the run returned with a trade closed and a position expiring after the
\* last trading date
C16_ReturnedWithOpenPosition ==
    /\ pc = "done"
    /\ Len(closed_trades) >= 1
    /\ \E i \in 1..Len(entries) : entries[i].expiration > date

\* C17: every step changes capital by exactly the total_pnl of the rows it
\* appends to closed_trades; the entry step, whether it opens a position,
\* finds no spread or is not allowed, appends none and leaves capital
\* unchanged, as does a date step without a settlement
C17_OnlySettlementMovesCapital ==
    [][/\ Len(closed_trades') >= Len(closed_trades)
       /\ SubSeq(closed_trades', 1, Len(closed_trades)) = closed_trades
       /\ capital' - capital
              = sum_total_pnl(closed_trades', Len(closed_trades'))
                - sum_total_pnl(closed_trades, Len(closed_trades))
       /\ closed_trades' = closed_trades => capital' = capital
       /\ pc = "entry" =>
              capital' = capital /\ closed_trades' = closed_trades]_vars

\* a position has just been opened with capital that settlements had moved,
\* and capital still has that value
C17_OpenedAfterSettlement ==
    /\ pc = "expirations"
    /\ spread # None /\ Val(spread) # None
    /\ capital # starting_capital
    /\ entries[Len(entries)].entry_date = date
    /\ entries[Len(entries)].capital_at_entry = capital

\* the entry step's find_spread call returned a candidate
found_now == spread' # None /\ Val(spread') # None

\* the candidate it returned
candidate == Val(Val(spread'))

\* C18 as stated: an entry step whose candidate has max_loss_per <= 0 ends
\* the run with the error and opens no position
C18_NonPositiveMaxLossFails ==
    [][pc = "entry" /\ found_now /\ max_loss_per_of(candidate) <= 0 =>
          pc' = "error" /\ entries' = entries]_vars

\* C18: an entry step whose candidate has max_loss_per = 0 ends the run with
\* the error, opening no position and leaving last_entry and capital as they
\* were; with max_loss_per < 0 it raises no error and opens a position of at
\* least one contract; the run fails in no other case
C18_ZeroMaxLossFails ==
    /\ [][pc = "entry" /\ found_now /\ max_loss_per_of(candidate) = 0 =>
              /\ pc' = "error"
              /\ UNCHANGED <<open_positions, entries, last_entry, capital>>]_vars
    /\ [][pc = "entry" /\ found_now /\ max_loss_per_of(candidate) < 0 =>
              /\ pc' = "expirations"
              /\ Len(entries') = Len(entries) + 1
              /\ open_positions' = Append(open_positions, opened_now)
              /\ opened_now.max_loss_per = max_loss_per_of(candidate)
              /\ opened_now.contracts >= 1]_vars
    /\ [][pc' = "error" =>
              pc = "entry" /\ found_now
              /\ max_loss_per_of(candidate) = 0]_vars

\* a position with long_strike above short_strike and a negative max_loss_per
\* is open
C18_OpenedWithNegativeMaxLoss ==
    \E i \in 1..Len(open_positions) :
        /\ open_positions[i].long_strike > open_positions[i].short_strike
        /\ open_positions[i].max_loss_per < 0
        /\ open_positions[i].contracts = 1

\* the date passes the entry test: no prior entry or entry_interval_days
\* calendar days since the last one, and an open slot after the date's
\* settlements
eligible ==
    /\ last_entry = None \/ date - Val(last_entry) >= entry_interval_days
    /\ Len(open_positions) < target_positions

\* the entry step opens exactly one position, dated today
opens_one ==
    /\ Len(entries') = Len(entries) + 1
    /\ opened_now.entry_date = date
    /\ open_positions' = Append(open_positions, opened_now)
    /\ last_entry' = Some(date)

\* the step opens no position
opens_none ==
    /\ entries' = entries
    /\ open_positions' = open_positions
    /\ last_entry' = last_entry

\* C19 as stated: the entry step of an eligible date on which find_spread
\* returns a candidate opens exactly one position and sets last_entry to the
\* date; on every other date no position is opened
C19_EntryIffEligibleAndFound ==
    [][pc = "entry" =>
          IF eligible /\ found_now THEN opens_one ELSE opens_none]_vars

\* C19: the entry step of an eligible date on which find_spread returns a
\* candidate with max_loss_per # 0 opens exactly one position and sets
\* last_entry to the date; with a candidate of max_loss_per = 0 the run fails
\* and no position is opened; on every other date find_spread is not called
\* or returns None, and no position is opened; the settlement step opens none
C19_EntryIffEligibleFoundAndSized ==
    /\ [][pc = "entry" =>
              /\ eligible <=> spread' # None
              /\ IF eligible /\ found_now
                 THEN IF max_loss_per_of(candidate) # 0
                      THEN opens_one /\ pc' = "expirations"
                      ELSE opens_none /\ pc' = "error"
                 ELSE opens_none /\ pc' = "expirations"]_vars
    /\ [][pc = "expirations" =>
              entries' = entries /\ last_entry' = last_entry
              /\ Len(open_positions') <= Len(open_positions)]_vars

\* a run that had opened a position failed on a later eligible date with a
\* candidate of max_loss_per = 0
C19_FailedAfterEntry ==
    /\ pc = "error"
    /\ Len(entries) >= 1
    /\ eligible
    /\ max_loss_per_of(Val(Val(spread))) = 0

\* the trading date on which closed trade t was settled: the first one at or
\* after its expiration and after its entry
settled_on(t) ==
    set_min({d \in quote_dates(df) : d >= t.expiration /\ d > t.entry_date})

\* the total P&L of the first n closed trades settled on or before date d
RECURSIVE pnl_settled_by(_, _)
pnl_settled_by(d, n) ==
    IF n = 0 THEN 0
    ELSE pnl_settled_by(d, n - 1)
         + (IF settled_on(closed_trades[n]) <= d
            THEN closed_trades[n].total_pnl ELSE 0)

\* the positions opened before position i and not expired on its entry date
open_at_entry(i) ==
    {j \in 1..(i - 1) : entries[j].expiration > entries[i].entry_date}

\* C20: every position's capital_at_entry is the starting capital plus the
\* total P&L of all trades settled on or before its entry date, that date's
\* settlements included; its contracts are sized from that capital; and only
\* the positions not expired on its entry date counted against
\* target_positions when it was opened
C20_SettlementBeforeEntry ==
    \A i \in 1..Len(entries) :
        LET e == entries[i]
            after == starting_capital
                     + pnl_settled_by(e.entry_date, Len(closed_trades))
        IN  /\ e.capital_at_entry = after
            /\ e.contracts =
                   max(1, floor_ratio(after, target_positions * e.max_loss_per))
            /\ Cardinality(open_at_entry(i)) < target_positions

\* with target_positions = 1, a position was opened on the date a trade was
\* settled with a P&L, with that trade's capital_after as capital_at_entry
C20_EnteredOnSettlementDate ==
    /\ target_positions = 1
    /\ \E i \in 1..Len(entries), k \in 1..Len(closed_trades) :
          /\ settled_on(closed_trades[k]) = entries[i].entry_date
          /\ closed_trades[k].total_pnl # 0
          /\ entries[i].capital_at_entry = closed_trades[k].capital_after
          /\ entries[i].capital_at_entry # starting_capital

\* a settlement lookup has returned
settle_returned ==
    /\ pc = "returned"
    /\ args.fn \in {"get_settlement_vix", "options_backtest.get_settlement_vix"}

\* the underlying level the table quotes on date d
level_on(table, d) ==
    CHOOSE v \in {table[i].underlying_bid_eod : i \in 1..Len(table)} :
        \E i \in 1..Len(table) :
            table[i].quote_date = d /\ table[i].underlying_bid_eod = v

\* the latest quote date of the table strictly before date e
latest_before(table, e) ==
    CHOOSE d \in quote_dates(table) :
        d < e /\ \A x \in quote_dates(table) : x < e => x <= d

\* C12: get_settlement_vix (of either file) returns the level quoted on the
\* expiration date if the table has that date, otherwise the level of the
\* latest quote date strictly before the expiration, and None exactly when
\* the table has no quote date at or before the expiration; the level of a
\* date after the expiration is never returned
C12_SettlementLookup ==
    settle_returned =>
        LET dates == quote_dates(args.df)
            e == args.expiration
        IN  /\ e \in dates => returned = Some(level_on(args.df, e))
            /\ e \notin dates /\ (\E d \in dates : d < e) =>
                   returned = Some(level_on(args.df, latest_before(args.df, e)))
            /\ returned = None <=> ~(\E d \in dates : d <= e)
            /\ returned # None =>
                   \E d \in dates : d <= e
                                    /\ Val(returned) = level_on(args.df, d)

\* a lookup for an expiration without quotes, with quote dates before and
\* after it, returned the level of the date before
C12_FellBackToPriorDate ==
    /\ settle_returned
    /\ args.expiration \notin quote_dates(args.df)
    /\ \E d \in quote_dates(args.df) : d > args.expiration
    /\ \E d, x \in quote_dates(args.df) : d < x /\ x < args.expiration
    /\ returned = Some(5000)

\* the calls of the day within the dte range at strike k
calls_at(k) ==
    {args.df_day[i] : i \in {j \in 1..Len(args.df_day) :
        /\ args.df_day[j].option_type = "C"
        /\ args.df_day[j].dte >= args.dte_min
        /\ args.df_day[j].dte <= args.dte_max
        /\ args.df_day[j].strike = k}}

\* the expirations quoted for both strikes
shared_expirations ==
    {r.expiration : r \in calls_at(args.short_strike)}
        \cap {r.expiration : r \in calls_at(args.long_strike)}

\* short.bid - long.ask at expiration x
credit_at(x) ==
    (CHOOSE r \in calls_at(args.short_strike) : r.expiration = x).bid_eod
    - (CHOOSE r \in calls_at(args.long_strike) : r.expiration = x).ask_eod

\* C14: find_spread returns None when the calls of the day with dte in
\* [dte_min, dte_max] at exactly the short and the long strike share no
\* expiration, or when short.bid - long.ask at the earliest shared expiration
\* is <= 0; otherwise it returns that expiration with that credit, the two
\* strikes, their difference as width and the short leg's dte
C14_EarliestSharedExpiration ==
    pc = "returned" /\ args.fn = "find_spread" =>
        IF shared_expirations = {} THEN returned = None
        ELSE LET x == CHOOSE m \in shared_expirations :
                          \A y \in shared_expirations : m <= y
             IN  IF credit_at(x) <= 0 THEN returned = None
                 ELSE returned =
                          Some([expiration |-> x,
                                short_strike |-> args.short_strike,
                                long_strike |-> args.long_strike,
                                credit |-> credit_at(x),
                                spread_width |-> args.long_strike
                                                 - args.short_strike,
                                dte |-> (CHOOSE r \in calls_at(
                                             args.short_strike) :
                                             r.expiration = x).dte])

\* find_spread returned None for a day whose earliest shared expiration has
\* credit <= 0 and whose later shared expiration has a positive credit
C14_LaterCreditIgnored ==
    /\ pc = "returned" /\ args.fn = "find_spread"
    /\ returned = None
    /\ \E x, y \in shared_expirations :
          x < y /\ credit_at(x) <= 0 /\ credit_at(y) > 0

\* function f runs on the table of SpecStrat
running(f) == f \in DOMAIN frames

\* the day loop of f recorded a position on the current date
entered_today(recorded) ==
    /\ pc = "loop"
    /\ Len(recorded) >= 1
    /\ recorded[Len(recorded)].entry_date = date

\* C21: an entry of juice2_tight_when_high is made with the offsets +5/+15
\* when the level of the entry date is strictly greater than 25, and with
\* +10/+20 otherwise, in particular at 25
C21_TightOnlyAbove25 ==
    running("juice2_tight_when_high") =>
        LET fr == frames["juice2_tight_when_high"]
        IN  entered_today(fr.results) =>
                <<fr.short_offset, fr.long_offset>>
                    = IF underlying_on(df, date) > 2500
                      THEN <<Some(500), Some(1500)>>
                      ELSE <<Some(1000), Some(2000)>>

\* C22: every entry of type 1 of juice3_twice_monthly is made on a day of
\* month in 1..10 with 45 to 60 days to expiration, every entry of type 2 on
\* a day of month in 15..25 with 25 to 45 days to expiration
C22_EntryWindows ==
    running("juice3_twice_monthly") =>
        \A i \in 1..Len(frames["juice3_twice_monthly"].results) :
            LET pos == frames["juice3_twice_monthly"].results[i]
                dom == day_of_month(pos.entry_date)
                dte == pos.expiration - pos.entry_date
            IN  /\ pos.entry_type \in {1, 2}
                /\ pos.entry_type = 1 =>
                       dom >= 1 /\ dom <= 10 /\ dte >= 45 /\ dte <= 60
                /\ pos.entry_type = 2 =>
                       dom >= 15 /\ dom <= 25 /\ dte >= 25 /\ dte <= 45

\* the quote dates of the table with a level at or below the threshold
calm_dates ==
    {df[i].quote_date : i \in {j \in 1..Len(df) :
        df[j].underlying_bid_eod <= args.vix_threshold}}

\* C23: every position of strategy_post_spike_call_spreads records a
\* vix_entry above vix_threshold, which is the level of its entry date, and
\* no position is entered on a date whose level is at or below the threshold
C23_EntersOnlyAboveThreshold ==
    running("strategy_post_spike_call_spreads") =>
        \A i \in 1..Len(frames["strategy_post_spike_call_spreads"].positions) :
            LET pos == frames["strategy_post_spike_call_spreads"].positions[i]
            IN  /\ pos.vix_entry > args.vix_threshold
                /\ pos.vix_entry = underlying_on(df, pos.entry_date)
                /\ pos.entry_date \notin calm_dates

\* a position was entered above the threshold on the second date, after a
\* first date at the threshold had been passed over
C23_PassedOverAtThreshold ==
    /\ running("strategy_post_spike_call_spreads")
    /\ Len(df) >= 2
    /\ df[1].underlying_bid_eod = args.vix_threshold
    /\ Len(frames["strategy_post_spike_call_spreads"].positions) = 1
    /\ frames["strategy_post_spike_call_spreads"].positions[1].entry_date
           = df[2].quote_date

\* both call-spread strategies have returned from the same table
both_returned ==
    /\ pc = "returned"
    /\ running("strategy_call_spreads")
    /\ running("baseline_call_spreads")

\* the fields of a trade the two strategies have in common
trade_of(r) ==
    <<r.entry_date, r.expiration, r.short_strike, r.long_strike, r.credit,
      r.pnl>>

\* C24: run on the same table with the same parameters,
\* strategy_call_spreads and baseline_call_spreads return the same number of
\* trades, with equal entry_date, expiration, short_strike, long_strike,
\* credit and pnl, in the same order
C24_SameTrades ==
    both_returned =>
        /\ Len(returned["strategy_call_spreads"])
               = Len(returned["baseline_call_spreads"])
        /\ \A i \in 1..Len(returned["strategy_call_spreads"]) :
               trade_of(returned["strategy_call_spreads"][i])
                   = trade_of(returned["baseline_call_spreads"][i])

\* both returned a losing trade settled above its long strike and left out
\* a second position whose settlement level is 0
C24_LossAndLeftOut ==
    /\ both_returned
    /\ Len(frames["baseline_call_spreads"].results) = 2
    /\ Len(returned["baseline_call_spreads"]) = 1
    /\ returned["baseline_call_spreads"][1].pnl < 0
    /\ returned["baseline_call_spreads"][1].vix_exp
           > returned["baseline_call_spreads"][1].long_strike

\* find_option was called on its own and has returned
find_option_returned ==
    /\ pc = "returned"
    /\ "fn" \in DOMAIN args
    /\ args.fn = "find_option"

\* the places of the day's rows of the requested type with dte in
\* [dte_min, dte_max] and a bid above 0
tradable ==
    {i \in 1..Len(args.df_day) :
        /\ args.df_day[i].option_type = args.option_type
        /\ args.dte_min <= args.df_day[i].dte
        /\ args.df_day[i].dte <= args.dte_max
        /\ args.df_day[i].bid_eod > 0}

\* how far the strike of the row at place i is from the target
off_target(i) ==
    IF args.df_day[i].strike >= args.target_strike
    THEN args.df_day[i].strike - args.target_strike
    ELSE args.target_strike - args.df_day[i].strike

\* C25: find_option returns None exactly when the day has no row of the
\* requested type with dte in range and bid > 0; otherwise it returns the
\* first such row in table order among those nearest in strike to the target
C25_NearestTradable ==
    find_option_returned =>
        /\ IsNone(returned) <=> tradable = {}
        /\ tradable # {} =>
               \E i \in tradable :
                   /\ Val(returned) = args.df_day[i]
                   /\ \A j \in tradable :
                          /\ off_target(i) <= off_target(j)
                          /\ j < i => off_target(j) > off_target(i)

\* the first of two calls equally far from the target was returned, the
\* day also holding a nearer call with no bid
C25_TieToFirst ==
    /\ find_option_returned
    /\ ~IsNone(returned)
    /\ Val(returned).strike = 4500
    /\ \E j \in tradable : args.df_day[j].strike = 3500
    /\ \E j \in 1..Len(args.df_day) : args.df_day[j].strike = 3750

\* the closed trades appended by the step
closed_by_step ==
    {closed_trades'[i] : i \in (Len(closed_trades) + 1)..Len(closed_trades')}

\* C26: every closed trade records exit_date equal to its expiration, which
\* is at or before the trading date on which it is settled and capital is
\* changed, and after its entry_date when dte_min >= 1; when the expiration
\* is not a trading date, a position entered before it is settled on the
\* first trading date after it, at the level of the latest date before it
C26_ExitDateIsExpiration ==
    [][\A t \in closed_by_step :
          /\ t.exit_date = t.expiration
          /\ t.exit_date <= date'
          /\ dte_min >= 1 => t.exit_date > t.entry_date
          /\ t.expiration \notin quote_dates(df') =>
                 /\ t.vix_exp = level_on(df', latest_before(df', t.expiration))
                 /\ t.entry_date < t.expiration =>
                        \A d \in quote_dates(df') :
                            d >= t.expiration => d = date']_vars

\* a trade expiring on day 3 was closed on trading date 4, after trading
\* dates 1 and 2, at the level of date 2, which is not that of date 4
C26_SettledAfterExpiration ==
    /\ quote_dates(df) = {1, 2, 4}
    /\ date = 4
    /\ \E i \in 1..Len(closed_trades) :
          /\ closed_trades[i].expiration = 3
          /\ closed_trades[i].exit_date = 3
          /\ closed_trades[i].entry_date = 1
          /\ closed_trades[i].vix_exp = level_on(df, 2)
          /\ closed_trades[i].vix_exp # level_on(df, 4)

\* what a call spread of the trade's strikes is worth at the level vix_exp:
\* nothing up to the short strike, the distance above it up to the long
\* strike, the distance between the strikes from there on
worth_at_exit(t) ==
    IF t.vix_exp <= t.short_strike THEN 0
    ELSE IF t.vix_exp >= t.long_strike THEN t.long_strike - t.short_strike
    ELSE t.vix_exp - t.short_strike

\* C28: for every closed trade with long_strike > short_strike,
\* -max_loss_per * contracts <= total_pnl <= credit * 100 * contracts, and
\* win is true exactly when the settlement value is below the credit
C28_DefinedRisk ==
    \A i \in 1..Len(closed_trades) :
        LET t == closed_trades[i]
        IN  t.long_strike > t.short_strike =>
                /\ -(t.max_loss_per * t.contracts) <= t.total_pnl
                /\ t.total_pnl <= t.credit * 100 * t.contracts
                /\ t.win <=> worth_at_exit(t) < t.credit

\* one trade was closed at its greatest loss and another at its greatest
\* gain
C28_BothBoundsMet ==
    \E i, j \in 1..Len(closed_trades) :
        /\ closed_trades[i].long_strike > closed_trades[i].short_strike
        /\ closed_trades[i].total_pnl
               = -(closed_trades[i].max_loss_per * closed_trades[i].contracts)
        /\ closed_trades[i].total_pnl < 0
        /\ ~closed_trades[i].win
        /\ closed_trades[j].long_strike > closed_trades[j].short_strike
        /\ closed_trades[j].total_pnl
               = closed_trades[j].credit * 100 * closed_trades[j].contracts
        /\ closed_trades[j].total_pnl > 0
        /\ closed_trades[j].win

\* the single-position strategies
SinglePosition ==
    {"strategy_otm_calls", "strategy_dynamic_strangles",
     "strategy_call_spreads", "strategy_post_spike_call_spreads",
     "baseline_call_spreads"}

\* the positions a strategy's locals fr record
recorded_in(f, fr) ==
    IF "results" \in DOMAIN fr THEN fr.results ELSE fr.positions

\* C27: in each single-position strategy every entry date is strictly later
\* than the expiration of the position recorded before it, and a date that
\* records no position leaves last_exp as it was and never sets in_position
C27_NoOverlap ==
    [][\A f \in SinglePosition \cap DOMAIN frames' :
          LET now == recorded_in(f, frames'[f])
              before == recorded_in(f, frames[f])
          IN  /\ \A i \in 2..Len(now) :
                     now[i].entry_date > now[i - 1].expiration
              /\ now = before =>
                     /\ frames'[f].last_exp = frames[f].last_exp
                     /\ f = "strategy_post_spike_call_spreads" =>
                            (frames'[f].in_position => frames[f].in_position)]_vars

\* strategy_otm_calls entered on day 1 with expiration 31, let trading date
\* 31 pass and entered again on date 32
C27_NextEntryAfterExpiration ==
    /\ running("strategy_otm_calls")
    /\ quote_dates(df) = {1, 31, 32}
    /\ Len(frames["strategy_otm_calls"].positions) = 2
    /\ frames["strategy_otm_calls"].positions[1].expiration = 31
    /\ frames["strategy_otm_calls"].positions[2].entry_date = 32

\* the level a position expiring on day e is to be settled at: that of day e
\* if it is a trading date, else that of the latest trading date before it
level_at_expiration(e) ==
    IF e \in quote_dates(df) THEN level_on(df, e)
    ELSE level_on(df, latest_before(df, e))

\* the places of the recorded positions of f with a settlement level other
\* than 0
with_level(f) ==
    {i \in 1..Len(recorded_in(f, frames[f])) :
        level_at_expiration(recorded_in(f, frames[f])[i].expiration) # 0}

\* C29: after the day loop every recorded position with a settlement level
\* other than 0 gets a result row with a P&L, in the order recorded, and no
\* other position does; a position expiring after the last quote date is
\* settled at the level of the last quote date; the call spreads' P&L is
\* (credit - the spread's worth at that level) * 100
C29_SettledAfterLoop ==
    pc = "returned" =>
        \A f \in DOMAIN frames :
            LET recs == recorded_in(f, frames[f])
                rows == returned[f]
            IN  /\ Len(rows) = Cardinality(with_level(f))
                /\ \A i \in with_level(f) :
                       LET r == rows[Cardinality({j \in with_level(f) : j <= i})]
                       IN  /\ r.entry_date = recs[i].entry_date
                           /\ r.expiration = recs[i].expiration
                           /\ "pnl" \in DOMAIN r
                           /\ r.vix_exp = level_at_expiration(r.expiration)
                           /\ r.expiration > date =>
                                  r.vix_exp = level_on(df, date)
                           /\ f \in {"strategy_call_spreads",
                                      "baseline_call_spreads"} =>
                                  r.pnl = (r.credit - worth_at_exit(r)) * 100

\* strategy_call_spreads returned a row for a position entered before the
\* last quote date and expiring after it, settled at the last date's level
C29_SettledAtLastQuote ==
    /\ pc = "returned"
    /\ running("strategy_call_spreads")
    /\ \E k \in 1..Len(returned["strategy_call_spreads"]) :
          LET r == returned["strategy_call_spreads"][k]
          IN  /\ r.entry_date < date
              /\ r.expiration > date
              /\ r.vix_exp = level_on(df, date)
              /\ r.vix_exp # r.vix_entry
              /\ r.pnl < 0
====
